---- MODULE Spec2Model ----
(***************************************************************************)
(* State-machine model of src/tools/unstable-book-gen (main.rs): the tool  *)
(* that writes stub pages for undocumented unstable features, mirrors the  *)
(* hand-written unstable-book sources into the destination and writes the  *)
(* generated SUMMARY.md.                                                   *)
(*                                                                         *)
(* Strings are sequences of one-character strings, so that replace('_',    *)
(* "-"), the ".md" suffix and their inverses are computed, not assumed.    *)
(* A directory listing is a function from file names to file contents.     *)
(* A tree is a record [files, dirs]: the files directly in it and its      *)
(* immediate sub-directories (each a directory listing).                   *)
(***************************************************************************)
EXTENDS Integers, Sequences, FiniteSets, TLC

VARIABLES
    lang_features,  \* main: let lang_features (name -> Feature)
    lib_features,   \* main: let lib_features  (name -> Feature)
    src,            \* the tree at doc_src_path (hand-written book sources)
    dest,           \* the tree at dest_path, with its existence flag
    pc,             \* position of main
    runs,           \* number of invocations of the tool so far
    dest0,          \* history: dest when the current run started
    written,        \* history: <<dir, file, content>> stubs written by this run
    rerun,          \* history: this run repeats a completed run on unchanged inputs
    prev_written,   \* history: the stubs the repeated run wrote
    io_failed,      \* history: an I/O operation of this run returned Err
    failures,       \* number of invocations that panicked so far
    order           \* steps performed so far by a run that permutes its steps

vars == <<lang_features, lib_features, src, dest, pc, runs, dest0, written,
          rerun, prev_written, io_failed, failures, order>>

(***************************************************************************)
(* Bounds of the model.                                                    *)
(***************************************************************************)
MaxRuns == 2
MaxFailures == 1
MaxIssue == 1

(***************************************************************************)
(* Character-level string helpers (std::str).                              *)
(***************************************************************************)
\* str::replace(from, to) for a one-character pattern and replacement.
Replace(s, from, to) == [i \in 1..Len(s) |-> IF s[i] = from THEN to ELSE s[i]]

EndsWith(s, suf) ==
    /\ Len(s) >= Len(suf)
    /\ SubSeq(s, Len(s) - Len(suf) + 1, Len(s)) = suf

MD == <<".", "m", "d">>

\* Names used by the tool.
SUMMARY_MD == <<"S", "U", "M", "M", "A", "R", "Y", ".", "m", "d">>
COMPILER_FLAGS_DIR == "compiler-flags"
LANG_FEATURES_DIR == "language-features"
LIB_FEATURES_DIR == "library-features"

(***************************************************************************)
(* Directory listings and trees.                                           *)
(***************************************************************************)
EmptyDir == [x \in {} |-> <<>>]

\* g's entries laid over f's: every write of the tool creates or overwrites.
Merge(f, g) == [x \in (DOMAIN f) \cup (DOMAIN g) |-> IF x \in DOMAIN g THEN g[x] ELSE f[x]]

\* fs::create_dir_all(dir) seen from the parent tree, then the listing of dir.
DirOf(tree, d) == IF d \in DOMAIN tree.dirs THEN tree.dirs[d] ELSE EmptyDir

SetDir(tree, d, listing) ==
    [tree EXCEPT !.dirs = Merge(tree.dirs, [x \in {d} |-> listing])]

SetFile(tree, name, content) ==
    [tree EXCEPT !.files = Merge(tree.files, [x \in {name} |-> content])]

\* Content of a file that was created or truncated and not written to.
Truncated == <<>>

\* A generated text is the sequence of the pieces write_fmt writes one after
\* the other: the name of the template stands for its text up to the first
\* argument, each argument for itself and the template text that follows it
\* up to the next one, and END for the text after the last argument.
END == "end"

\* Content of a hand-written page of the book sources, in two pieces so that
\* a copy that fails midway has a partial content to leave.
Hand == <<"hand-", "written">>

\* What a write of `content` that fails (fs::copy, or write_fmt piece by
\* piece on an unbuffered File) can leave in its target, which was created or
\* truncated first: nothing, or a proper prefix, its last piece possibly short.
CutsOf(content) == {SubSeq(content, 1, k) : k \in 0..(Len(content) - 1)}

(***************************************************************************)
(* tidy::features and tidy::unstable_book (collaborators of main.rs).      *)
(***************************************************************************)
\* Option<u32>: None is <<>>, Some(n) is <<n>>.
None == <<>>
Some(n) == <<n>>

FeatureVals ==
    [level : {"Stable", "Unstable"},
     tracking_issue : {None} \cup {Some(n) : n \in 0..MaxIssue}]

\* Names of the features whose level is Unstable.
collect_unstable_feature_names(features) ==
    {n \in DOMAIN features : features[n].level = "Unstable"}

\* File name -> identifier: strip ".md", map '-' back to '_'.
section_name(file) ==
    Replace(IF EndsWith(file, MD) THEN SubSeq(file, 1, Len(file) - Len(MD)) ELSE file,
            "-", "_")

\* The identifiers of the files directly in a directory.
collect_unstable_book_section_file_names(dir) ==
    {section_name(f) : f \in DOMAIN dir}

(***************************************************************************)
(* main.rs: stub rendering.                                                *)
(***************************************************************************)
\* format_args!(include_str!("stub-issue.md"), name = name, issue = issue)
generate_stub_issue(name, issue) == <<"stub-issue.md", name, issue, END>>

\* format_args!(include_str!("stub-no-issue.md"), name = name)
generate_stub_no_issue(name) == <<"stub-no-issue.md", name, END>>

\* A plausible slip: `n >= 0` where the code has `n > 0`.
has_valid_tracking_issue_ge(f) ==
    IF f.tracking_issue # None
    THEN f.tracking_issue[1] >= 0
    ELSE FALSE

has_valid_tracking_issue(f) ==
    IF f.tracking_issue # None
    THEN f.tracking_issue[1] > 0
    ELSE FALSE

\* format!("{}.md", feature_name.replace('_', "-"))
file_name(feature_name) == Replace(feature_name, "_", "-") \o MD

\* Body of the loop of generate_unstable_book_files for one feature.
stub_for(features, feature_name) ==
    IF has_valid_tracking_issue(features[feature_name])
    THEN generate_stub_issue(feature_name, features[feature_name].tracking_issue[1])
    ELSE generate_stub_no_issue(feature_name)

\* A plausible slip: the output directory is emptied before the stubs are written.
write_stubs_fresh(out, features, names) ==
    [f \in {file_name(n) : n \in names} |->
        stub_for(features, CHOOSE n \in names : file_name(n) = f)]

\* The loop run over the features `names`: one file created or overwritten each.
write_stubs(out, features, names) ==
    Merge(out, [f \in {file_name(n) : n \in names} |->
                  stub_for(features, CHOOSE n \in names : file_name(n) = f)])

\* A plausible slip: `&` (intersection) where the code has `-`.
missing_features_intersection(src_dir, features) ==
    collect_unstable_feature_names(features)
        \cap collect_unstable_book_section_file_names(src_dir)

\* &unstable_features - &unstable_section_file_names
missing_features(src_dir, features) ==
    collect_unstable_feature_names(features)
        \ collect_unstable_book_section_file_names(src_dir)

\* A plausible slip: a stub for every unstable feature, documented or not.
generate_unstable_book_files_all(src_dir, out, features) ==
    [names |-> collect_unstable_feature_names(features),
     listing |-> write_stubs(out, features, collect_unstable_feature_names(features))]

\* A plausible slip: the output directory is scanned instead of the sources.
generate_unstable_book_files_scan_out(src_dir, out, features) ==
    [names |-> missing_features(out, features),
     listing |-> write_stubs(out, features, missing_features(out, features))]

\* generate_unstable_book_files(src, out, features), every operation Ok: the
\* features the loop visits and the listing of `out` it leaves.
generate_unstable_book_files(src_dir, out, features) ==
    [names |-> missing_features(src_dir, features),
     listing |-> write_stubs(out, features, missing_features(src_dir, features))]

(***************************************************************************)
(* main.rs: summary rendering.                                             *)
(***************************************************************************)
\* The orders in which a HashSet may be iterated.
IterationOrders(S) ==
    {s \in [1..Cardinality(S) -> S] : \A i, j \in 1..Cardinality(S) : s[i] = s[j] => i = j}

\* A plausible slip: the fold starts from the first element and drops it.
hset_to_summary_str_skip(hset, dir) ==
    [i \in 1..(Len(hset) - 1) |->
        [label |-> hset[i + 1], dir |-> dir,
         file |-> Replace(hset[i + 1], "_", "-") \o MD]]

\* One line "    - [n](dir/n-with-dashes.md)" per element, in iteration order.
hset_to_summary_str(hset, dir) ==
    [i \in 1..Len(hset) |->
        [label |-> hset[i], dir |-> dir, file |-> Replace(hset[i], "_", "-") \o MD]]

\* The text written to SUMMARY.md, for given iteration orders of the three sets.
summary_text(cf_order, lang_order, lib_order) ==
    <<"SUMMARY.md",
      hset_to_summary_str(cf_order, COMPILER_FLAGS_DIR),
      hset_to_summary_str(lang_order, LANG_FEATURES_DIR),
      hset_to_summary_str(lib_order, LIB_FEATURES_DIR),
      END>>

(***************************************************************************)
(* main.rs: the mirror step.                                               *)
(***************************************************************************)
\* A plausible slip: a directory of the destination is replaced, not merged.
copy_recursive_replace(path, to) ==
    [to EXCEPT
       !.files = Merge(to.files, path.files),
       !.dirs = Merge(to.dirs, path.dirs)]

\* copy_recursive(path, to): files are copied over, directories are created
\* as needed and their files copied over.
copy_recursive(path, to) ==
    [to EXCEPT
       !.files = Merge(to.files, path.files),
       !.dirs = Merge(to.dirs,
                      [d \in DOMAIN path.dirs |-> Merge(DirOf(to, d), path.dirs[d])])]

(***************************************************************************)
(* Inputs: the registries tidy collects and the book sources.              *)
(***************************************************************************)
A_B == <<"a", "_", "b">>
C == <<"c">>
D == <<"d">>

\* collect_lib_features is given the language registry and keeps no name
\* that registry already holds: the two registries share no identifier.
LangNames == {A_B, C}
LibNames == {D}

Registries(names, vals) == UNION {[S -> vals] : S \in SUBSET names}

\* Features as first collected: a stable feature carries no tracking issue.
InitFeatureVals ==
    {f \in FeatureVals : f.level = "Stable" => f.tracking_issue = None}

\* The listings holding hand-written pages under some of `names`.
Listings(names) == UNION {[S -> {Hand}] : S \in SUBSET names}

\* The book sources: SUMMARY.md or nothing at the top, and the three
\* section directories, each holding files only.
SrcTrees(top, lang, lib, flags) ==
    {[files |-> t,
      dirs |-> [d \in {COMPILER_FLAGS_DIR, LANG_FEATURES_DIR, LIB_FEATURES_DIR} |->
                  IF d = LANG_FEATURES_DIR THEN l
                  ELSE IF d = LIB_FEATURES_DIR THEN b ELSE c]] :
       t \in Listings(top), l \in Listings(lang), b \in Listings(lib), c \in Listings(flags)}

NoTree == [exists |-> FALSE, files |-> EmptyDir, dirs |-> EmptyDir]

\* What can differ between two consecutive invocations: nothing, one language
\* feature stabilized or removed from its registry, or one language feature's
\* page written (the library pass runs the same code on its own registry).
Stabilized(features) ==
    {[features EXCEPT ![n].level = "Stable"] :
        n \in collect_unstable_feature_names(features)}

Removed(features) ==
    {[m \in (DOMAIN features) \ {n} |-> features[m]] : n \in DOMAIN features}

Documented(tree, d, features) ==
    {SetDir(tree, d, Merge(tree.dirs[d], [x \in {file_name(n)} |-> Hand])) :
        n \in missing_features(tree.dirs[d], features)}

Edits(lang, lib, tree) ==
    {[lang |-> lang, lib |-> lib, src |-> tree]}
    \cup {[lang |-> l, lib |-> lib, src |-> tree] : l \in Stabilized(lang) \cup Removed(lang)}
    \cup {[lang |-> lang, lib |-> lib, src |-> t] :
            t \in Documented(tree, LANG_FEATURES_DIR, lang)}

(***************************************************************************)
(* main.rs: main, one action per statement that does I/O.                  *)
(***************************************************************************)
\* The statement of main that follows the one at p.
main_next(p) ==
    CASE p = "lang" -> "lib"
      [] p = "lib" -> "copy"
      [] p = "copy" -> "summary"
      [] p = "summary" -> "done"

\* A plausible slip: the error is dropped and main goes on.
t_err_ignored(next) == next

\* macro t!: Err(e) => panic!(...), whatever statement would have followed.
t_err(next) == "failed"

TypeOK ==
    /\ pc \in {"idle", "lang", "lib", "copy", "summary", "done", "failed", "any"}
    /\ runs \in 0..MaxRuns
    /\ failures \in 0..MaxFailures
    /\ DOMAIN lang_features \subseteq LangNames
    /\ DOMAIN lib_features \subseteq LibNames
    /\ rerun \in BOOLEAN /\ io_failed \in BOOLEAN

InitState ==
    /\ dest = NoTree
    /\ dest0 = NoTree
    /\ pc = "idle"
    /\ runs = 0
    /\ written = {}
    /\ prev_written = {}
    /\ rerun = FALSE
    /\ io_failed = FALSE
    /\ failures = 0
    /\ order = <<>>

\* A_B takes every value of a collected feature; C, when collected, is
\* unstable with the largest tracking issue; D is always collected and has
\* no tracking issue.
Init ==
    /\ lang_features \in {r \in Registries(LangNames, InitFeatureVals) :
                             C \in DOMAIN r =>
                                 /\ r[C].level = "Unstable"
                                 /\ r[C].tracking_issue = Some(MaxIssue)}
    /\ lib_features \in [LibNames -> {f \in InitFeatureVals : f.tracking_issue = None}]
    /\ src \in {t \in SrcTrees({SUMMARY_MD}, {file_name(A_B)}, {}, {<<"f">> \o MD}) :
                   t.dirs[COMPILER_FLAGS_DIR] # EmptyDir}
    /\ InitState

\* An I/O operation returns Err: the run is counted as panicked.
Fails ==
    /\ failures < MaxFailures
    /\ failures' = failures + 1
    /\ io_failed' = TRUE

\* The inputs of the next invocation: edited after a completed run, the same
\* after a run that panicked (the tool is run again once the cause is fixed).
NextInputs ==
    IF pc = "failed"
    THEN {[lang |-> lang_features, lib |-> lib_features, src |-> src]}
    ELSE Edits(lang_features, lib_features, src)

\* main lines 126-137: the registries are collected and dest_path is created;
\* `first` is the statement main goes to next.
Begin(ok, first) ==
    /\ pc \in {"idle", "done", "failed"}
    /\ runs < MaxRuns
    /\ \E in \in NextInputs :
          /\ lang_features' = in.lang
          /\ lib_features' = in.lib
          /\ src' = in.src
          /\ rerun' = (pc = "done" /\ in.lang = lang_features
                          /\ in.lib = lib_features /\ in.src = src)
    /\ prev_written' = IF rerun' THEN written ELSE {}
    /\ runs' = runs + 1
    /\ dest0' = dest
    /\ written' = {}
    /\ order' = <<>>
    /\ IF ok THEN io_failed' = FALSE /\ failures' = failures ELSE Fails
    /\ dest' = IF ok THEN [dest EXCEPT !.exists = TRUE] ELSE dest
    /\ pc' = IF ok THEN first ELSE t_err(first)

StartRun == Begin(TRUE, "lang")

StartRunFail == Begin(FALSE, "lang")

\* The stubs a reconciliation pass wrote, as <<dir, file, content>>.
StubsOf(d, features, names) ==
    {<<d, file_name(n), stub_for(features, n)>> : n \in names}

\* generate_unstable_book_files(doc_src_path/d, dest_path/d, features), all Ok.
Reconcile(d, features) ==
    /\ LET r == generate_unstable_book_files(src.dirs[d], DirOf(dest, d), features)
       IN /\ dest' = SetDir(dest, d, r.listing)
          /\ written' = written \cup StubsOf(d, features, r.names)
    /\ UNCHANGED <<lang_features, lib_features, src, runs, dest0, rerun,
                   prev_written, io_failed, failures>>

\* The same call with one I/O operation returning Err: read_dir or
\* create_dir_all (nothing written), or File::create / write_fmt of one stub
\* after the stubs of `done` were written (the HashSet is iterated in any
\* order); a failed write_fmt leaves the created file empty or with the
\* pieces written before the failure.
ReconcileFail(d, features) ==
    /\ LET r == generate_unstable_book_files(src.dirs[d], DirOf(dest, d), features)
       IN \E created \in BOOLEAN :
          \E done \in SUBSET r.names :
          \E cut \in {EmptyDir} \cup
                      UNION {[{file_name(n)} -> CutsOf(stub_for(features, n))] :
                                n \in r.names \ done} :
             /\ ~created => done = {} /\ cut = EmptyDir
             /\ created => done # r.names
             /\ dest' = IF created
                        THEN SetDir(dest, d,
                               Merge(write_stubs(DirOf(dest, d), features, done), cut))
                        ELSE dest
             /\ written' = written \cup StubsOf(d, features, done)
    /\ pc' = t_err(main_next(pc))
    /\ Fails
    /\ UNCHANGED <<lang_features, lib_features, src, runs, dest0, rerun,
                   prev_written, order>>

\* main goes on to its next statement.
Step == pc' = main_next(pc) /\ UNCHANGED order

GenerateLang == pc = "lang" /\ Reconcile(LANG_FEATURES_DIR, lang_features) /\ Step

GenerateLangFail == pc = "lang" /\ ReconcileFail(LANG_FEATURES_DIR, lang_features)

GenerateLib == pc = "lib" /\ Reconcile(LIB_FEATURES_DIR, lib_features) /\ Step

GenerateLibFail == pc = "lib" /\ ReconcileFail(LIB_FEATURES_DIR, lib_features)

\* The part of a tree that copy_recursive has copied when an operation
\* fails before it touches a file: some top-level files, some directories
\* whole, and at most one directory created with only some of its files.
WholeParts(tree) ==
    {[files |-> [f \in F |-> tree.files[f]],
      dirs |-> [d \in W \cup H |-> IF d \in W THEN tree.dirs[d]
                                   ELSE [f \in P \cap DOMAIN tree.dirs[d] |->
                                           tree.dirs[d][f]]]] :
        F \in SUBSET DOMAIN tree.files,
        W \in SUBSET DOMAIN tree.dirs,
        H \in {X \in SUBSET DOMAIN tree.dirs : Cardinality(X) <= 1},
        P \in SUBSET UNION {DOMAIN tree.dirs[d] : d \in DOMAIN tree.dirs}}

\* The same when fs::copy of the top-level file c fails: fs::copy creates or
\* truncates its target before it copies, so c is left empty or partial.
TopCutParts(tree) ==
    UNION {UNION {
        {[files |-> Merge([f \in F |-> tree.files[f]], [x \in {c} |-> cut]),
          dirs |-> [d \in W |-> tree.dirs[d]]] :
            F \in SUBSET ((DOMAIN tree.files) \ {c}),
            W \in SUBSET DOMAIN tree.dirs} :
        cut \in CutsOf(tree.files[c])} :
        c \in DOMAIN tree.files}

\* The same when fs::copy of the file c of directory h fails.
DirCutParts(tree) ==
    UNION {UNION {UNION {
        {[files |-> [f \in F |-> tree.files[f]],
          dirs |-> [d \in W \cup {h} |->
                      IF d # h THEN tree.dirs[d]
                      ELSE Merge([f \in P |-> tree.dirs[h][f]], [x \in {c} |-> cut])]] :
            F \in SUBSET DOMAIN tree.files,
            W \in SUBSET ((DOMAIN tree.dirs) \ {h}),
            P \in SUBSET ((DOMAIN tree.dirs[h]) \ {c})} :
        cut \in CutsOf(tree.dirs[h][c])} :
        c \in DOMAIN tree.dirs[h]} :
        h \in DOMAIN tree.dirs}

PartsOf(tree) == WholeParts(tree) \cup TopCutParts(tree) \cup DirCutParts(tree)

\* What copy_recursive has copied when one of its operations returns Err: any
\* part, the whole tree included (the iterator of read_dir returns Err after
\* the last entry, or fs::copy after the bytes of the last file).
CopyParts(tree) == PartsOf(tree)

\* copy_recursive(&doc_src_path, &dest_path), all Ok.
Mirror ==
    /\ dest' = copy_recursive(src, dest)
    /\ UNCHANGED <<lang_features, lib_features, src, runs, dest0, written, rerun,
                   prev_written, io_failed, failures>>

Copy == pc = "copy" /\ Mirror /\ Step

\* copy_recursive(&doc_src_path, &dest_path) with one operation returning Err:
\* read_dir, metadata or create_dir_all, or fs::copy of one file.
CopyFail ==
    /\ pc = "copy"
    /\ \E part \in CopyParts(src) : dest' = copy_recursive(part, dest)
    /\ pc' = t_err(main_next(pc))
    /\ Fails
    /\ UNCHANGED <<lang_features, lib_features, src, runs, dest0, written, rerun,
                   prev_written, order>>

\* A plausible slip: an existing SUMMARY.md is kept (create_new, not create).
generate_summary_keep(path, lang, lib) ==
    IF SUMMARY_MD \in DOMAIN path.files
    THEN {path}
    ELSE {SetFile(path, SUMMARY_MD,
                  summary_text(cf, la, li)) :
            cf \in IterationOrders(collect_unstable_book_section_file_names(
                                       path.dirs[COMPILER_FLAGS_DIR])),
            la \in IterationOrders(collect_unstable_feature_names(lang)),
            li \in IterationOrders(collect_unstable_feature_names(lib))}

\* The trees generate_summary(path, ..) can leave at path, all Ok: the
\* compiler-flags directory of path itself is scanned.
generate_summary(path, lang, lib) ==
    {SetFile(path, SUMMARY_MD, summary_text(cf, la, li)) :
        cf \in IterationOrders(collect_unstable_book_section_file_names(
                                   path.dirs[COMPILER_FLAGS_DIR])),
        la \in IterationOrders(collect_unstable_feature_names(lang)),
        li \in IterationOrders(collect_unstable_feature_names(lib))}

\* generate_summary(&dest_path, &lang_features, &lib_features), all Ok.
WriteSummary ==
    /\ COMPILER_FLAGS_DIR \in DOMAIN dest.dirs
    /\ dest' \in generate_summary(dest, lang_features, lib_features)
    /\ UNCHANGED <<lang_features, lib_features, src, runs, dest0, written, rerun,
                   prev_written, io_failed, failures>>

Summary == pc = "summary" /\ WriteSummary /\ Step

\* What generate_summary leaves of the text it was writing when write_fmt
\* fails, for each text it can write.
SummaryCuts(path, lang, lib) ==
    UNION {CutsOf(t.files[SUMMARY_MD]) : t \in generate_summary(path, lang, lib)}

\* read_dir or File::create fails (nothing written), or write_fmt fails
\* (SUMMARY.md is left empty or with the pieces written before the failure).
SummaryFail ==
    /\ pc = "summary"
    /\ \/ dest' = dest
       \/ /\ COMPILER_FLAGS_DIR \in DOMAIN dest.dirs
          /\ \E cut \in SummaryCuts(dest, lang_features, lib_features) :
                dest' = SetFile(dest, SUMMARY_MD, cut)
    /\ pc' = t_err(main_next(pc))
    /\ Fails
    /\ UNCHANGED <<lang_features, lib_features, src, runs, dest0, written, rerun,
                   prev_written, order>>

Next ==
    \/ StartRun
    \/ StartRunFail
    \/ GenerateLang
    \/ GenerateLangFail
    \/ GenerateLib
    \/ GenerateLibFail
    \/ Copy
    \/ CopyFail
    \/ Summary
    \/ SummaryFail

Spec == Init /\ [][Next]_vars

(***************************************************************************)
(* The same program on book sources whose file names are not of the form   *)
(* identifier-with-dashes.md: an underscore in the name, no extension.     *)
(***************************************************************************)
F_G == <<"f", "_", "g">>

UndocumentedUnstable == {f \in InitFeatureVals : f.level = "Unstable" /\ f.tracking_issue = None}

InitNames ==
    /\ lang_features \in Registries({A_B}, UndocumentedUnstable)
    /\ lib_features \in Registries(LibNames, UndocumentedUnstable)
    /\ src \in SrcTrees({}, {file_name(A_B), A_B \o MD, Replace(A_B, "_", "-")}, {},
                        {file_name(F_G), F_G \o MD})
    /\ InitState

SpecNames == InitNames /\ [][Next]_vars

(***************************************************************************)
(* The statements of main performed in an arbitrary order: the two         *)
(* reconciliation passes, the mirror step and the summary, each once.      *)
(***************************************************************************)
Performed == {order[i] : i \in 1..Len(order)}

Position(step) == CHOOSE i \in 1..Len(order) : order[i] = step

AnyStep(step) ==
    /\ pc = "any"
    /\ step \notin Performed
    /\ order' = Append(order, step)
    /\ pc' = IF Len(order) = 3 THEN "done" ELSE "any"

StartAny == Begin(TRUE, "any")

AnyLang == AnyStep("lang") /\ Reconcile(LANG_FEATURES_DIR, lang_features)

AnyLib == AnyStep("lib") /\ Reconcile(LIB_FEATURES_DIR, lib_features)

AnyCopy == AnyStep("copy") /\ Mirror

AnySummary == AnyStep("summary") /\ WriteSummary

\* read_dir of a compiler-flags directory that does not exist returns Err.
AnySummaryNoDir ==
    /\ pc = "any"
    /\ "summary" \notin Performed
    /\ COMPILER_FLAGS_DIR \notin DOMAIN dest.dirs
    /\ pc' = t_err("any")
    /\ Fails
    /\ UNCHANGED <<lang_features, lib_features, src, dest, runs, dest0, written, rerun,
                   prev_written, order>>

NextAnyOrder ==
    \/ StartAny
    \/ AnyLang
    \/ AnyLib
    \/ AnyCopy
    \/ AnySummary
    \/ AnySummaryNoDir

InitAnyOrder ==
    /\ lang_features \in Registries(LangNames, UndocumentedUnstable)
    /\ lib_features \in Registries(LibNames, UndocumentedUnstable)
    /\ src \in {t \in SrcTrees({SUMMARY_MD}, {file_name(A_B)}, {}, {<<"f">> \o MD}) :
                   t.dirs[COMPILER_FLAGS_DIR] # EmptyDir}
    /\ InitState

SpecAnyOrder == InitAnyOrder /\ [][NextAnyOrder]_vars

(***************************************************************************)
(* Vocabulary of the properties, stated without the operators of the model *)
(* where the property is about what they compute.                          *)
(***************************************************************************)
FeaturesOf(d) == IF d = LANG_FEATURES_DIR THEN lang_features ELSE lib_features

\* The position of main right after the reconciliation pass of directory d.
AfterPass(d) == IF d = LANG_FEATURES_DIR THEN "lib" ELSE "copy"

\* The position of main at the reconciliation pass of directory d.
AtPass(d) == IF d = LANG_FEATURES_DIR THEN "lang" ELSE "lib"

FeatureDirs == {LANG_FEATURES_DIR, LIB_FEATURES_DIR}

\* The files of directory d for which this run wrote a stub.
StubFiles(d) == {w[2] : w \in {x \in written : x[1] = d}}

\* n has a page in the section directory d of the sources.
HasPage(d, n) == \E f \in DOMAIN src.dirs[d] : section_name(f) = n

IsUnstable(d, n) == n \in DOMAIN FeaturesOf(d) /\ FeaturesOf(d)[n].level = "Unstable"

\* c is a stub page written to its end.
IsStub(c) ==
    /\ Len(c) >= 3
    /\ c[1] \in {"stub-issue.md", "stub-no-issue.md"}
    /\ c[Len(c)] = END

\* Every path of a tree: the root, its files, its directories, their files.
Paths(tree) ==
    {<<"/">> : x \in {y \in {tree.exists} : y}}
    \cup {<<"/", f>> : f \in DOMAIN tree.files}
    \cup {<<d>> : d \in DOMAIN tree.dirs}
    \cup UNION {{<<d, f>> : f \in DOMAIN tree.dirs[d]} : d \in DOMAIN tree.dirs}

\* Every file of a tree with its content.
FilesOf(tree) ==
    {<<"/", f, tree.files[f]>> : f \in DOMAIN tree.files}
    \cup UNION {{<<d, f, tree.dirs[d][f]>> : f \in DOMAIN tree.dirs[d]} :
                 d \in DOMAIN tree.dirs}

(***************************************************************************)
(* C1                                                                       *)
(***************************************************************************)
\* C1 as stated: right after the reconciliation pass of a directory, the stubs
\* that pass wrote are exactly those of identifiers(R) - S, R the whole
\* registry (stable and unstable features) and S the scan of the section
\* directory.
C1_StubsForRegistryMinusScan ==
    \A d \in FeatureDirs :
        pc = AfterPass(d) =>
            StubFiles(d) = {file_name(n) : n \in {m \in DOMAIN FeaturesOf(d) : ~HasPage(d, m)}}

\* C1 amended: right after the reconciliation pass of a directory, the stubs
\* that pass wrote are exactly those of the UNSTABLE identifiers of the
\* registry that are absent from the scan, and each of these files holds a
\* stub in the destination; no stub for a stable or a documented feature.
C1_StubsForUnstableMinusScan ==
    \A d \in FeatureDirs :
        pc = AfterPass(d) =>
            /\ StubFiles(d) =
                 {file_name(n) : n \in {m \in DOMAIN FeaturesOf(d) :
                                           IsUnstable(d, m) /\ ~HasPage(d, m)}}
            /\ \A f \in StubFiles(d) :
                 /\ f \in DOMAIN DirOf(dest, d)
                 /\ IsStub(dest.dirs[d][f])

\* A pass has written a stub while another unstable feature had its page.
C1_Witness ==
    /\ pc = AfterPass(LANG_FEATURES_DIR)
    /\ StubFiles(LANG_FEATURES_DIR) # {}
    /\ \E n \in DOMAIN lang_features :
          IsUnstable(LANG_FEATURES_DIR, n) /\ HasPage(LANG_FEATURES_DIR, n)

(***************************************************************************)
(* C2                                                                       *)
(***************************************************************************)
\* C2: every stub written for a feature is the with-issue template carrying
\* N exactly when the feature's tracking issue is Some(N) with N > 0, and the
\* without-issue template when it is None or Some(0); one file gets one
\* content, and right after the pass the destination holds it.
C2_TemplateSelection ==
    \A d \in FeatureDirs :
      \A n \in DOMAIN FeaturesOf(d) :
        \A w \in written :
          (w[1] = d /\ w[2] = file_name(n)) =>
            /\ \A v \in written : (v[1] = w[1] /\ v[2] = w[2]) => v = w
            /\ LET issue == FeaturesOf(d)[n].tracking_issue
               IN IF issue # None /\ issue # Some(0)
                  THEN w[3] = <<"stub-issue.md", n, issue[1], END>>
                  ELSE w[3] = <<"stub-no-issue.md", n, END>>
            /\ pc = AfterPass(d) => dest.dirs[d][w[2]] = w[3]

\* Stubs of both templates have been written, one of them for issue Some(0).
C2_Witness ==
    /\ \E w \in written : w[3][1] = "stub-issue.md"
    /\ \E w \in written : w[3][1] = "stub-no-issue.md"
    /\ \E n \in DOMAIN lang_features :
          /\ lang_features[n].tracking_issue = Some(0)
          /\ file_name(n) \in StubFiles(LANG_FEATURES_DIR)

(***************************************************************************)
(* C3                                                                       *)
(***************************************************************************)
\* The lines of section i of a summary document whose label is n.
LinesOf(doc, i, n) == {k \in 1..Len(doc[i]) : doc[i][k].label = n}

\* C3: in the summary written by a completed run, each unstable language
\* feature is the label of exactly one line of the language section and each
\* unstable library feature of exactly one line of the library section, in
\* whatever order the sets were iterated; every label of a section is an
\* unstable feature of that section's registry.
C3_SummaryCompleteness ==
    pc = "done" =>
        LET doc == dest.files[SUMMARY_MD]
        IN /\ \A n \in LangNames \cup LibNames :
                /\ Cardinality(LinesOf(doc, 3, n)) =
                     IF IsUnstable(LANG_FEATURES_DIR, n) THEN 1 ELSE 0
                /\ Cardinality(LinesOf(doc, 4, n)) =
                     IF IsUnstable(LIB_FEATURES_DIR, n) THEN 1 ELSE 0
           /\ \A k \in 1..Len(doc[3]) : doc[3][k].label \in LangNames
           /\ \A k \in 1..Len(doc[4]) : doc[4][k].label \in LibNames

\* A summary with two language lines, written in the order C then A_B, next
\* to a stable feature that is on no line.
C3_Witness ==
    /\ pc = "done"
    /\ Len(dest.files[SUMMARY_MD][3]) = 2
    /\ dest.files[SUMMARY_MD][3][1].label = C
    /\ \E n \in DOMAIN lib_features : lib_features[n].level = "Stable"

(***************************************************************************)
(* C4                                                                       *)
(***************************************************************************)
\* C4: a reconciliation pass (ended Ok or by a failure) creates and overwrites
\* no file of the output directory for a feature whose identifier is in the
\* scan of the section directory, writes no stub for it, and leaves the
\* sources as they are.
C4_NoOpWhenDocumented ==
    [][\A d \in FeatureDirs :
         (pc = AtPass(d) /\ pc' # pc) =>
            /\ src' = src
            /\ \A n \in DOMAIN FeaturesOf(d) :
                 HasPage(d, n) =>
                    /\ file_name(n) \notin StubFiles(d)'
                    /\ file_name(n) \in DOMAIN DirOf(dest', d)
                         <=> file_name(n) \in DOMAIN DirOf(dest, d)
                    /\ file_name(n) \in DOMAIN DirOf(dest, d) =>
                         dest'.dirs[d][file_name(n)] = dest.dirs[d][file_name(n)]]_vars

\* Right after the language pass: A_B is unstable and has its page, and the
\* output directory still holds the stub an earlier run wrote for it.
C4_Witness ==
    /\ pc = AfterPass(LANG_FEATURES_DIR)
    /\ IsUnstable(LANG_FEATURES_DIR, A_B)
    /\ HasPage(LANG_FEATURES_DIR, A_B)
    /\ file_name(A_B) \in DOMAIN DirOf(dest, LANG_FEATURES_DIR)
    /\ IsStub(dest.dirs[LANG_FEATURES_DIR][file_name(A_B)])
    /\ written # {}

(***************************************************************************)
(* C5                                                                       *)
(***************************************************************************)
\* C5 as stated: a run is all-or-nothing, so after a failed run the
\* destination holds no file the run wrote: its files are those it held, with
\* their contents, when the run began.
C5_AllOrNothing ==
    io_failed => FilesOf(dest) = FilesOf(dest0)

\* c is `full` or what a write of `full` that stopped early leaves.
IsPrefix(c, full) == Len(c) <= Len(full) /\ c = SubSeq(full, 1, Len(c))

\* The texts the run writes to file f of directory d ("/" is the root): the
\* file of that path in the sources, the stub of the undocumented unstable
\* feature the file is named after, the summary.
WritesTo(d, f) ==
    (IF d = "/"
     THEN {src.files[g] : g \in {f} \cap DOMAIN src.files}
     ELSE {src.dirs[d][g] : g \in {f} \cap DOMAIN src.dirs[d]})
    \cup (IF d \in FeatureDirs
          THEN {stub_for(FeaturesOf(d), n) :
                  n \in {m \in DOMAIN FeaturesOf(d) :
                           IsUnstable(d, m) /\ ~HasPage(d, m) /\ file_name(m) = f}}
          ELSE {})
    \cup (IF d = "/" /\ f = SUMMARY_MD /\ COMPILER_FLAGS_DIR \in DOMAIN dest.dirs
          THEN {t.files[SUMMARY_MD] :
                  t \in generate_summary(dest, lang_features, lib_features)}
          ELSE {})

\* Where a failed run leaves the destination: no path is gone, every stub the
\* run wrote to its end is there, and every file is as it was when the run
\* began or holds a text the run writes to it, whole or cut short.
NothingRolledBack ==
    /\ Paths(dest0) \subseteq Paths(dest)
    /\ \A w \in written : w \in FilesOf(dest)
    /\ \A p \in FilesOf(dest) :
          \/ p \in FilesOf(dest0)
          \/ \E full \in WritesTo(p[1], p[2]) : IsPrefix(p[3], full)

\* C5 amended: once an I/O operation has failed the run is over: main is at
\* its panic and performs no further step, so the only step from there is a
\* new invocation of the tool; and the failure rolls nothing back: what the
\* run wrote stays in the destination, the file it was writing included,
\* untouched, empty, cut short or whole.
C5_AbortWithoutRollback ==
    [][/\ io_failed => (pc = "failed" /\ runs' = runs + 1 /\ written' = {})
       /\ io_failed' => NothingRolledBack']_vars

\* A failed run that left some of its stubs behind, and the first pieces of
\* the stub whose write_fmt failed.
C5_Witness ==
    /\ io_failed
    /\ pc = "failed"
    /\ written # {}
    /\ FilesOf(dest) # FilesOf(dest0)
    /\ \E p \in FilesOf(dest) :
          /\ p[3] # Truncated
          /\ p[3][1] \in {"stub-issue.md", "stub-no-issue.md"}
          /\ ~IsStub(p[3])

(***************************************************************************)
(* C6                                                                       *)
(***************************************************************************)
\* C6: a run that repeats a completed run on the same registries and sources
\* writes the same stub files with the same contents, each over the file the
\* first run left, and adds no path to the destination.
C6_Idempotence ==
    (pc = "done" /\ rerun) =>
        /\ written = prev_written
        /\ \A w \in written :
              /\ dest0.dirs[w[1]][w[2]] = w[3]
              /\ dest.dirs[w[1]][w[2]] = w[3]
        /\ Paths(dest) = Paths(dest0)

\* A repeated run that wrote stubs.
C6_Witness ==
    /\ pc = "done"
    /\ rerun
    /\ written # {}

(***************************************************************************)
(* C7                                                                       *)
(***************************************************************************)
\* C7: no step of any run removes a path of the destination.
C7_NoFileDeleted ==
    [][Paths(dest) \subseteq Paths(dest')]_vars

\* After a later run: A_B is no longer an unstable feature of the registry,
\* it has no page in the sources, and the stub an earlier run wrote is there.
C7_Witness ==
    /\ pc = "done"
    /\ runs >= 2
    /\ ~IsUnstable(LANG_FEATURES_DIR, A_B)
    /\ ~HasPage(LANG_FEATURES_DIR, A_B)
    /\ file_name(A_B) \in DOMAIN DirOf(dest, LANG_FEATURES_DIR)
    /\ IsStub(dest.dirs[LANG_FEATURES_DIR][file_name(A_B)])

(***************************************************************************)
(* C9                                                                       *)
(***************************************************************************)
\* C9: at the end of a completed run SUMMARY.md of the destination is the
\* generated summary, not a mirrored file, and its compiler-flags section
\* lists the compiler-flags directory as the mirror step left it.
C9_SummaryWrittenLast ==
    pc = "done" =>
        /\ SUMMARY_MD \in DOMAIN dest.files
        /\ LET doc == dest.files[SUMMARY_MD]
           IN /\ Len(doc) = 5
              /\ doc[1] = "SUMMARY.md"
              /\ doc[5] = END
              /\ {doc[2][k].label : k \in 1..Len(doc[2])} =
                   {section_name(f) : f \in DOMAIN src.dirs[COMPILER_FLAGS_DIR]
                                          \cup DOMAIN DirOf(dest0, COMPILER_FLAGS_DIR)}

\* A completed run whose sources hold a SUMMARY.md of their own.
C9_Witness ==
    /\ pc = "done"
    /\ SUMMARY_MD \in DOMAIN src.files
    /\ src.files[SUMMARY_MD] = Hand

(***************************************************************************)
(* C8                                                                       *)
(***************************************************************************)
\* C8: at the end of a completed run, the link target of every line of the
\* three sections of SUMMARY.md is a file of the destination.
C8_LinkTargetsExist ==
    pc = "done" =>
        LET doc == dest.files[SUMMARY_MD]
        IN \A i \in 2..4 :
             \A k \in 1..Len(doc[i]) :
                doc[i][k].file \in DOMAIN DirOf(dest, doc[i][k].dir)

(***************************************************************************)
(* C10                                                                      *)
(***************************************************************************)
\* The trees the run leaves when its steps are performed in main's order,
\* one for each order in which the sets of the summary can be iterated.
SequentialResults ==
    LET d0 == [dest0 EXCEPT !.exists = TRUE]
        d1 == SetDir(d0, LANG_FEATURES_DIR,
                     generate_unstable_book_files(src.dirs[LANG_FEATURES_DIR],
                         DirOf(d0, LANG_FEATURES_DIR), lang_features).listing)
        d2 == SetDir(d1, LIB_FEATURES_DIR,
                     generate_unstable_book_files(src.dirs[LIB_FEATURES_DIR],
                         DirOf(d1, LIB_FEATURES_DIR), lib_features).listing)
        d3 == copy_recursive(src, d2)
    IN generate_summary(d3, lang_features, lib_features)

\* C10 as stated: in whatever order the passes, the mirror step and the
\* summary (with its compiler-flags scan) are performed, the run completes
\* with the destination tree and summary of the sequential order.
C10_AnyOrderSameResult ==
    (pc \in {"done", "failed"}) => (pc = "done" /\ dest \in SequentialResults)

\* C10 amended: the two passes and the mirror step can be performed in any
\* order, and the summary anywhere after the mirror step: such a run completes
\* with the destination tree and summary of the sequential order; a run fails
\* only where the summary is attempted before the mirror step.
C10_SameResultWhenSummaryFollowsMirror ==
    /\ (pc = "done" /\ Position("copy") < Position("summary")) =>
            dest \in SequentialResults
    /\ pc = "failed" => "copy" \notin Performed

\* A completed run that mirrored first and reconciled afterwards, with stubs.
C10_Witness ==
    /\ pc = "done"
    /\ order[1] = "copy"
    /\ order[4] = "summary"
    /\ written # {}
    /\ src.dirs[LANG_FEATURES_DIR] # EmptyDir

====
